---- MODULE Spec2Model ----
(***************************************************************************)
(* Model of app.py: a Streamlit chat front-end that turns a question into  *)
(* SQL with an LLM, runs the SQL on PostgreSQL and has the LLM phrase the  *)
(* result.                                                                 *)
(*                                                                         *)
(* A text is a sequence of atoms (strings that are never split); string    *)
(* concatenation is \o and Python's `a in b` is contiguous containment.    *)
(* An Optional[str] is a record [none, s].  The LLM service and the        *)
(* database are external: what they answer is chosen from small sets.      *)
(***************************************************************************)
EXTENDS Integers, Sequences, FiniteSets, TLC

VARIABLES
    pc,                  \* position of the script run ("wait": no run in progress)
    cache,               \* st.cache_data entry of get_db_schema (Optional[str])
    DB_SCHEMA,           \* module-level DB_SCHEMA of the current run (Optional[str])
    messages,            \* st.session_state.messages (<<>>: key not yet present)
    prompt,              \* value of st.chat_input in the current run (Optional[str])
    sql_query,           \* local of generate_db_answer
    query_result,        \* local of generate_db_answer
    final_answer_prompt, \* local of generate_db_answer
    answer,              \* value returned by generate_db_answer (Optional[str])
    conn,                \* local conn: TRUE iff it holds a connection object
    pending,             \* what the try block in progress ends with, run by finally
    openConns,           \* number of database connections currently open
    escaped,             \* an exception ended the current/last script run
    nTurns,              \* history: user questions submitted so far
    visited,             \* history: stages entered in the current turn, in order
    schemaFetches,       \* history: executions of get_db_schema's body
    firstSchema,         \* history: text returned by the first get_db_schema call
    schemaFailed,        \* history: the schema fetch raised a database error
    turnConns,           \* history: connections opened since the turn began
    turnCalls,           \* history: LLM calls made in the current turn, in order
    sqlResp,             \* history: response of the SQL-generation call of the turn
    dbOut                \* history: what the database did with the turn's statement

vars == <<pc, cache, DB_SCHEMA, messages, prompt, sql_query, query_result,
          final_answer_prompt, answer, conn, pending, openConns, escaped,
          nTurns, visited, schemaFetches, firstSchema, schemaFailed,
          turnConns, turnCalls, sqlResp, dbOut>>

(***************************************************************************)
(* Bounds                                                                  *)
(***************************************************************************)
MaxTurns == 2

(***************************************************************************)
(* Python values and string operations                                     *)
(***************************************************************************)
None == [none |-> TRUE, s |-> <<>>]

Str(s) == [none |-> FALSE, s |-> s]

\* Python `sub in s` on strings
Contains(sub, s) ==
    \E i \in 0..(Len(s) - Len(sub)) : SubSeq(s, i + 1, i + Len(sub)) = sub

Whitespace == {" ", "\n"}

RECURSIVE LStrip(_)
LStrip(s) == IF s # <<>> /\ Head(s) \in Whitespace THEN LStrip(Tail(s)) ELSE s

RECURSIVE RStrip(_)
RStrip(s) ==
    IF s # <<>> /\ s[Len(s)] \in Whitespace
    THEN RStrip(SubSeq(s, 1, Len(s) - 1))
    ELSE s

\* str.strip()
Strip(s) == RStrip(LStrip(s))

\* str.replace(old, "") for a one-atom old
RECURSIVE Remove(_, _)
Remove(s, old) ==
    IF s = <<>> THEN <<>>
    ELSE IF Head(s) = old THEN Remove(Tail(s), old)
    ELSE <<Head(s)>> \o Remove(Tail(s), old)

\* sep.join(parts)
RECURSIVE Join(_, _)
Join(parts, sep) ==
    IF parts = <<>> THEN <<>>
    ELSE IF Len(parts) = 1 THEN parts[1]
    ELSE parts[1] \o sep \o Join(Tail(parts), sep)

Digits == <<"0", "1", "2", "3", "4", "5", "6", "7", "8", "9">>

\* str() / repr() of a non-negative int
RECURSIVE IntStr(_)
IntStr(n) ==
    IF n < 10 THEN <<Digits[n + 1]>>
    ELSE IntStr(n \div 10) \o <<Digits[(n % 10) + 1]>>

\* repr() of a str
ReprStr(k) == <<"'", k, "'">>

\* d[k] = v on a dict kept as a sequence of <<key, value>> in insertion order
DictSet(d, k, v) ==
    IF \E i \in 1..Len(d) : d[i][1] = k
    THEN [i \in 1..Len(d) |-> IF d[i][1] = k THEN <<k, v>> ELSE d[i]]
    ELSE Append(d, <<k, v>>)

Min(a, b) == IF a < b THEN a ELSE b

\* dict(zip(keys, values))
RECURSIVE DictZipFrom(_, _, _, _)
DictZipFrom(d, keys, values, i) ==
    IF i > Min(Len(keys), Len(values)) THEN d
    ELSE DictZipFrom(DictSet(d, keys[i], values[i]), keys, values, i + 1)

DictZip(keys, values) == DictZipFrom(<<>>, keys, values, 1)

\* str() of a dict of str -> int
StrDict(d) ==
    <<"{">>
    \o Join([i \in 1..Len(d) |-> ReprStr(d[i][1]) \o <<": ">> \o IntStr(d[i][2])],
            <<", ">>)
    \o <<"}">>

\* str() of a list of dicts
StrList(ds) ==
    <<"[">> \o Join([i \in 1..Len(ds) |-> StrDict(ds[i])], <<", ">>) \o <<"]">>

(***************************************************************************)
(* External services                                                       *)
(***************************************************************************)
\* A generate_content outcome: an exception with message err, or a response
\* whose .text is text.
LlmError(msg) == [ok |-> FALSE, text |-> None, err |-> msg]

LlmText(t) == [ok |-> TRUE, text |-> t, err |-> <<>>]

\* The markdown fences that open and close a code block (three backquotes,
\* which a TLA+ string cannot hold, written as quotes).
FenceSql == "'''sql"

Fence == "'''"

ApiErrors == { <<"503 UNAVAILABLE">> }

SqlResponses ==
    { LlmText(Str(<<"SELECT 1;">>)),
      LlmText(Str(<<FenceSql, "\n", "SELECT COUNT(*) FROM orders;", "\n", Fence>>)),
      LlmText(Str(<<"SELECT id, qty FROM orders;", "\n">>)),
      LlmText(Str(<<"SELECT 1, 2;">>)),
      LlmText(Str(<<"SELECT id FROM orders WHERE FALSE;">>)),
      LlmText(Str(<<"INSERT INTO orders VALUES (3, 7);">>)),
      LlmText(Str(<<"Here is the query">>)),
      LlmText(Str(<<>>)),
      LlmText(None) }
    \cup { LlmError(m) : m \in ApiErrors }

AnswerResponses ==
    { LlmText(Str(<<"Here is what I found.">>)),
      LlmText(Str(<<>>)),
      LlmText(None) }
    \cup { LlmError(m) : m \in ApiErrors }

\* What the database does with a statement: rows with a description, a
\* statement without a result set (cursor.description is None), or an error.
DbRows(cols, data) == [kind |-> "rows", cols |-> cols, data |-> data, msg |-> <<>>]

DbNoResultSet == [kind |-> "none", cols |-> <<>>, data |-> <<>>, msg |-> <<>>]

DbError(m) == [kind |-> "error", cols |-> <<>>, data |-> <<>>, msg |-> m]

DbIdle == [kind |-> "idle", cols |-> <<>>, data |-> <<>>, msg |-> <<>>]

DbExecute(sql) ==
    CASE sql = <<"SELECT 1;">> -> DbRows(<<"?column?">>, << <<1>> >>)
      [] sql = <<"SELECT COUNT(*) FROM orders;">> -> DbRows(<<"count">>, << <<42>> >>)
      [] sql = <<"SELECT id, qty FROM orders;">> ->
            DbRows(<<"id", "qty">>, << <<2, 42>>, <<1, 7>> >>)
      [] sql = <<"SELECT 1, 2;">> -> DbRows(<<"?column?", "?column?">>, << <<1, 2>> >>)
      [] sql = <<"SELECT id FROM orders WHERE FALSE;">> -> DbRows(<<"id">>, <<>>)
      [] sql = <<"INSERT INTO orders VALUES (3, 7);">> -> DbNoResultSet
      [] sql = <<>> -> DbError(<<"can't execute an empty query">>)
      [] OTHER -> DbError(<<"syntax error at or near ">> \o <<Head(sql)>>)

ConnectErrors == { <<"connection refused">> }

\* information_schema.columns rows (table_name, column_name, data_type)
Catalogs ==
    { << <<"orders", "id", "integer">>, <<"orders", "qty", "integer">>,
         <<"products", "name", "text">> >>,
      << <<"Schema unavailable", "id", "integer">> >>,
      <<>> }

Questions == { <<"How many rows are in table orders?">>, <<"What sells best?">> }

(***************************************************************************)
(* get_db_schema                                                           *)
(***************************************************************************)
\* What a try block ends with while its finally clause is still to run.
NoPending == [kind |-> "none", val |-> <<>>]

Return(v) == [kind |-> "return", val |-> v]

Raise(v) == [kind |-> "raise", val |-> v]

FallThrough == [kind |-> "fall", val |-> <<>>]

\* schema[table].append(f"{column} ({data_type})") over cur.fetchall()
RECURSIVE GroupColumns(_, _)
GroupColumns(schema, rows) ==
    IF rows = <<>> THEN schema
    ELSE LET table == Head(rows)[1]
             col == <<Head(rows)[2], " (", Head(rows)[3], ")">>
             next == IF \E i \in 1..Len(schema) : schema[i][1] = table
                     THEN [i \in 1..Len(schema) |->
                            IF schema[i][1] = table
                            THEN <<table, Append(schema[i][2], col)>>
                            ELSE schema[i]]
                     ELSE Append(schema, <<table, <<col>> >>)
         IN  GroupColumns(next, Tail(rows))

\* "\n\n".join(f"Table: {t}\nColumns: {', '.join(c)}" ...)
SchemaText(rows) ==
    LET schema == GroupColumns(<<>>, rows)
    IN  Join([i \in 1..Len(schema) |->
                <<"Table: ", schema[i][1], "\nColumns: ">>
                \o Join(schema[i][2], <<", ">>)],
             <<"\n\n">>)

Marker == <<"Schema unavailable">>

\* f"Schema unavailable due to database error: {error}"
SchemaErrorText(error) == Marker \o <<" due to database error: ">> \o error

\* conn.close() as the last statement of the try body instead of in finally
CloseOnlyWithoutException(c, n, p) == IF c /\ p.kind # "raise" THEN n - 1 ELSE n

\* conn.close() in a finally clause guarded by `if conn:`: connections left open
OpenAfterFinally(c, n, p) == IF c THEN n - 1 ELSE n

\* a cache that keeps only the schemas fetched without error
CacheStoreSuccessOnly(v) == IF Contains(Marker, v) THEN None ELSE Str(v)

\* @st.cache_data keeps whatever value the function returned
CacheStore(v) == Str(v)

\* A script run starts: the first one has no chat input yet, a later one is
\* a rerun with or without a submitted question.
BeginRun ==
    /\ pc = "wait"
    /\ \E q \in {None} \cup {Str(x) : x \in Questions} :
         /\ (q.none = FALSE) => (messages # <<>> /\ nTurns < MaxTurns)
         /\ prompt' = q
    /\ pc' = "get_schema"
    /\ DB_SCHEMA' = None
    /\ escaped' = FALSE
    /\ UNCHANGED <<cache, messages, sql_query, query_result, final_answer_prompt,
                   answer, conn, pending, openConns, nTurns, visited,
                   schemaFetches, firstSchema, schemaFailed, turnConns,
                   turnCalls, sqlResp, dbOut>>

\* DB_SCHEMA = get_db_schema() served from the cache
SchemaCached ==
    /\ pc = "get_schema"
    /\ cache.none = FALSE
    /\ DB_SCHEMA' = cache
    /\ firstSchema' = IF firstSchema.none THEN cache ELSE firstSchema
    /\ pc' = "session_init"
    /\ UNCHANGED <<cache, messages, prompt, sql_query, query_result,
                   final_answer_prompt, answer, conn, pending, openConns, escaped,
                   nTurns, visited, schemaFetches, schemaFailed, turnConns,
                   turnCalls, sqlResp, dbOut>>

\* cache miss: conn = None; psycopg2.connect(DATABASE_URL)
SchemaConnect ==
    /\ pc = "get_schema"
    /\ cache.none = TRUE
    /\ schemaFetches' = schemaFetches + 1
    /\ \/ /\ conn' = TRUE
          /\ openConns' = openConns + 1
          /\ turnConns' = turnConns + 1
          /\ pending' = NoPending
          /\ pc' = "schema_query"
          /\ UNCHANGED schemaFailed
       \/ \E e \in ConnectErrors :
          /\ conn' = FALSE
          /\ pending' = Return(SchemaErrorText(e))
          /\ schemaFailed' = TRUE
          /\ pc' = "schema_finally"
          /\ UNCHANGED <<openConns, turnConns>>
    /\ UNCHANGED <<cache, DB_SCHEMA, messages, prompt, sql_query, query_result,
                   final_answer_prompt, answer, escaped, nTurns, visited,
                   firstSchema, turnCalls, sqlResp, dbOut>>

\* cur.execute(catalog query); fetchall; build schema_text
SchemaQuery ==
    /\ pc = "schema_query"
    /\ \/ \E rows \in Catalogs :
          /\ pending' = Return(SchemaText(rows))
          /\ UNCHANGED schemaFailed
       \/ \E e \in ConnectErrors :
          /\ pending' = Return(SchemaErrorText(e))
          /\ schemaFailed' = TRUE
    /\ pc' = "schema_finally"
    /\ UNCHANGED <<cache, DB_SCHEMA, messages, prompt, sql_query, query_result,
                   final_answer_prompt, answer, conn, openConns, escaped, nTurns,
                   visited, schemaFetches, firstSchema, turnConns, turnCalls,
                   sqlResp, dbOut>>

\* finally: if conn: conn.close(); the value returned is cached
SchemaFinally ==
    /\ pc = "schema_finally"
    /\ openConns' = OpenAfterFinally(conn, openConns, pending)
    /\ conn' = FALSE
    /\ cache' = CacheStore(pending.val)
    /\ DB_SCHEMA' = Str(pending.val)
    /\ firstSchema' = IF firstSchema.none THEN Str(pending.val) ELSE firstSchema
    /\ pending' = NoPending
    /\ pc' = "session_init"
    /\ UNCHANGED <<messages, prompt, sql_query, query_result, final_answer_prompt,
                   answer, escaped, nTurns, visited, schemaFetches, schemaFailed,
                   turnConns, turnCalls, sqlResp, dbOut>>

(***************************************************************************)
(* generate_db_answer                                                      *)
(***************************************************************************)
\* The per-turn stage the controller is in at a position of the script
Stage(p) ==
    CASE p = "sql_call" -> "AwaitingSQL"
      [] p \in {"exec_connect", "exec_run", "exec_finally"} -> "AwaitingQueryResult"
      [] p = "synth_call" -> "AwaitingAnswer"
      [] OTHER -> "Idle"

\* history of the stages entered, extended when the position changes stage
Entered(v, from, to) ==
    IF Stage(to) # "Idle" /\ Stage(to) # Stage(from) THEN Append(v, Stage(to)) ELSE v

\* f"Sorry, I can't connect to the database to retrieve the schema. Error: {db_schema}"
SchemaUnavailableReply(db_schema) ==
    <<"Sorry, I can't connect to the database to retrieve the schema. Error: ">>
    \o db_schema

\* response_sql.text.strip().replace(FenceSql, "").replace(Fence, "").strip()
CleanSql(text) == Strip(Remove(Remove(Strip(text), FenceSql), Fence))

\* f"Error generating SQL: {e}"
SqlGenErrorReply(e) == <<"Error generating SQL: ">> \o e

\* the except clause of the first try block without its return
NoReturnOnSqlGenError(failed) == "exec_connect"

\* the executor left out between the two LLM calls
SkipExecutor(failed) == IF failed THEN "append" ELSE "synth_call"

\* where generate_db_answer goes after the first try block
NextAfterSqlGen(failed) == IF failed THEN "append" ELSE "exec_connect"

NoDataFound == <<"No data found.">>

\* an except clause that swallows the error and keeps the initial text
KeepInitialOnDbError(initial, e) == initial

\* except psycopg2.Error as e: query_result = f"Database Error: {e}"
ResultOnDbError(initial, e) == <<"Database Error: ">> \o e

\* str([dict(zip(column_names, row)) for row in data])
ResultText(column_names, data) ==
    StrList([i \in 1..Len(data) |-> DictZip(column_names, data[i])])

\* the f-string final_answer_prompt
FinalAnswerPrompt(user_question, sql, result) ==
    <<"The user asked: \"">> \o user_question
    \o <<"\" The SQL query executed was: \"">> \o sql
    \o <<"\" The database result is:\n">> \o result
    \o <<"\n Analyze the result and provide a clear, concise, natural language answer to the user's original question. ",
         "If the result is a Database Error or shows 'No data found.', inform the user politely.">>

\* f"Error generating final answer: {e}"
AnswerErrorReply(e) == <<"Error generating final answer: ">> \o e

\* the script run is over: its namespace is gone
EndRun ==
    /\ pc' = "wait"
    /\ prompt' = None
    /\ sql_query' = <<>>
    /\ query_result' = <<>>
    /\ final_answer_prompt' = <<>>
    /\ answer' = None
    /\ pending' = NoPending
    /\ turnConns' = 0
    /\ turnCalls' = <<>>
    /\ sqlResp' = LlmText(None)
    /\ dbOut' = DbIdle

\* lines 158-169: seed the transcript, render it, read the chat input
SessionInit ==
    /\ pc = "session_init"
    /\ messages' = IF messages = <<>>
                   THEN << [role |-> "assistant",
                            content |-> Str(<<"Hello, Sir/ Ma'am ! I can answer your questions by querying the database. What would you like to know?">>)] >>
                   ELSE messages
    /\ IF prompt.none
       THEN /\ EndRun
            /\ UNCHANGED <<conn>>
       ELSE /\ pc' = "submit"
            /\ UNCHANGED <<prompt, sql_query, query_result, final_answer_prompt,
                           answer, conn, pending, turnConns, turnCalls, sqlResp,
                           dbOut>>
    /\ UNCHANGED <<cache, DB_SCHEMA, openConns, escaped, nTurns, visited,
                   schemaFetches, firstSchema, schemaFailed>>

\* line 171: the user message joins the transcript and the turn begins
Submit ==
    /\ pc = "submit"
    /\ messages' = Append(messages, [role |-> "user", content |-> prompt])
    /\ nTurns' = nTurns + 1
    /\ visited' = <<>>
    /\ turnConns' = 0
    /\ turnCalls' = <<>>
    /\ pc' = "check_schema"
    /\ UNCHANGED <<cache, DB_SCHEMA, prompt, sql_query, query_result,
                   final_answer_prompt, answer, conn, pending, openConns, escaped,
                   schemaFetches, firstSchema, schemaFailed, sqlResp, dbOut>>

\* lines 75-76: the marker test on the schema text
CheckSchema ==
    /\ pc = "check_schema"
    /\ IF Contains(Marker, DB_SCHEMA.s)
       THEN /\ answer' = Str(SchemaUnavailableReply(DB_SCHEMA.s))
            /\ pc' = "append"
       ELSE /\ pc' = "sql_call"
            /\ UNCHANGED answer
    /\ visited' = Entered(visited, pc, pc')
    /\ UNCHANGED <<cache, DB_SCHEMA, messages, prompt, sql_query, query_result,
                   final_answer_prompt, conn, pending, openConns, escaped, nTurns,
                   schemaFetches, firstSchema, schemaFailed, turnConns, turnCalls,
                   sqlResp, dbOut>>

\* lines 78-98: the SQL-generation call returns or raises
SqlCall ==
    /\ pc = "sql_call"
    /\ \E r \in SqlResponses :
         /\ sqlResp' = r
         /\ IF r.ok /\ ~r.text.none
            THEN /\ sql_query' = CleanSql(r.text.s)
                 /\ pc' = NextAfterSqlGen(FALSE)
                 /\ UNCHANGED answer
            ELSE /\ answer' = Str(SqlGenErrorReply(
                        IF r.ok THEN <<"'NoneType' object has no attribute 'strip'">>
                        ELSE r.err))
                 /\ pc' = NextAfterSqlGen(TRUE)
                 /\ UNCHANGED sql_query
    /\ turnCalls' = Append(turnCalls, "sql")
    /\ visited' = Entered(visited, pc, pc')
    /\ UNCHANGED <<cache, DB_SCHEMA, messages, prompt, query_result,
                   final_answer_prompt, conn, pending, openConns, escaped, nTurns,
                   schemaFetches, firstSchema, schemaFailed, turnConns, dbOut>>

\* lines 101-104: conn = None; query_result = "No data found."; connect
ExecConnect ==
    /\ pc = "exec_connect"
    /\ \/ /\ conn' = TRUE
          /\ openConns' = openConns + 1
          /\ turnConns' = turnConns + 1
          /\ query_result' = NoDataFound
          /\ pending' = NoPending
          /\ pc' = "exec_run"
          /\ UNCHANGED dbOut
       \/ \E e \in ConnectErrors :
          /\ conn' = FALSE
          /\ query_result' = ResultOnDbError(NoDataFound, e)
          /\ pending' = FallThrough
          /\ dbOut' = DbError(e)
          /\ pc' = "exec_finally"
          /\ UNCHANGED <<openConns, turnConns>>
    /\ visited' = Entered(visited, pc, pc')
    /\ UNCHANGED <<cache, DB_SCHEMA, messages, prompt, sql_query,
                   final_answer_prompt, answer, escaped, nTurns, schemaFetches,
                   firstSchema, schemaFailed, turnCalls, sqlResp>>

\* lines 105-117: execute, read cur.description, fetchall, format
ExecRun ==
    /\ pc = "exec_run"
    /\ LET out == DbExecute(sql_query)
       IN  /\ dbOut' = out
           /\ CASE out.kind = "rows" ->
                     /\ query_result' = ResultText(out.cols, out.data)
                     /\ pending' = FallThrough
                [] out.kind = "error" ->
                     /\ query_result' = ResultOnDbError(query_result, out.msg)
                     /\ pending' = FallThrough
                [] OTHER ->
                     /\ pending' = Raise(<<"TypeError: 'NoneType' object is not iterable">>)
                     /\ UNCHANGED query_result
    /\ pc' = "exec_finally"
    /\ visited' = Entered(visited, pc, pc')
    /\ UNCHANGED <<cache, DB_SCHEMA, messages, prompt, sql_query,
                   final_answer_prompt, answer, conn, openConns, escaped, nTurns,
                   schemaFetches, firstSchema, schemaFailed, turnConns, turnCalls,
                   sqlResp>>

\* lines 118-132: finally closes the connection; an exception no except
\* clause matched leaves generate_db_answer and ends the script run
ExecFinally ==
    /\ pc = "exec_finally"
    /\ openConns' = OpenAfterFinally(conn, openConns, pending)
    /\ conn' = FALSE
    /\ IF pending.kind = "raise"
       THEN /\ escaped' = TRUE
            /\ EndRun
       ELSE /\ final_answer_prompt' = FinalAnswerPrompt(prompt.s, sql_query, query_result)
            /\ pending' = NoPending
            /\ pc' = "synth_call"
            /\ UNCHANGED <<escaped, prompt, sql_query, query_result, answer,
                           turnConns, turnCalls, sqlResp, dbOut>>
    /\ visited' = Entered(visited, pc, pc')
    /\ UNCHANGED <<cache, DB_SCHEMA, messages, nTurns, schemaFetches, firstSchema,
                   schemaFailed>>

\* lines 134-142: the synthesis call returns or raises
SynthCall ==
    /\ pc = "synth_call"
    /\ \E r \in AnswerResponses :
         answer' = IF r.ok THEN r.text ELSE Str(AnswerErrorReply(r.err))
    /\ turnCalls' = Append(turnCalls, "synth")
    /\ pc' = "append"
    /\ visited' = Entered(visited, pc, pc')
    /\ UNCHANGED <<cache, DB_SCHEMA, messages, prompt, sql_query, query_result,
                   final_answer_prompt, conn, pending, openConns, escaped, nTurns,
                   schemaFetches, firstSchema, schemaFailed, turnConns, sqlResp,
                   dbOut>>

\* lines 181-184: the reply is rendered and joins the transcript
AppendAnswer ==
    /\ pc = "append"
    /\ messages' = Append(messages, [role |-> "assistant", content |-> answer])
    /\ EndRun
    /\ UNCHANGED <<cache, DB_SCHEMA, conn, openConns, escaped, nTurns, visited,
                   schemaFetches, firstSchema, schemaFailed>>

(***************************************************************************)
(* Specification                                                           *)
(***************************************************************************)
Init ==
    /\ pc = "wait"
    /\ cache = None
    /\ DB_SCHEMA = None
    /\ messages = <<>>
    /\ prompt = None
    /\ sql_query = <<>>
    /\ query_result = <<>>
    /\ final_answer_prompt = <<>>
    /\ answer = None
    /\ conn = FALSE
    /\ pending = NoPending
    /\ openConns = 0
    /\ escaped = FALSE
    /\ nTurns = 0
    /\ visited = <<>>
    /\ schemaFetches = 0
    /\ firstSchema = None
    /\ schemaFailed = FALSE
    /\ turnConns = 0
    /\ turnCalls = <<>>
    /\ sqlResp = LlmText(None)
    /\ dbOut = DbIdle

Next ==
    \/ BeginRun
    \/ SchemaCached
    \/ SchemaConnect
    \/ SchemaQuery
    \/ SchemaFinally
    \/ SessionInit
    \/ Submit
    \/ CheckSchema
    \/ SqlCall
    \/ ExecConnect
    \/ ExecRun
    \/ ExecFinally
    \/ SynthCall
    \/ AppendAnswer

Spec == Init /\ [][Next]_vars

(***************************************************************************)
(* Properties                                                              *)
(***************************************************************************)
StageOrder == <<"AwaitingSQL", "AwaitingQueryResult", "AwaitingAnswer">>

IsPrefix(a, b) == Len(a) <= Len(b) /\ SubSeq(b, 1, Len(a)) = a

TurnOver == pc = "append" \/ (pc = "wait" /\ escaped)

IsUnreachableReply(a) ==
    /\ ~a.none
    /\ a.s # <<>>
    /\ a.s[1] = "Sorry, I can't connect to the database to retrieve the schema. Error: "

\* C1: between script runs, after N submitted questions the transcript holds
\* exactly 1 + 2N messages: the assistant greeting, then for each turn the
\* user question followed by an assistant reply.
C1_TranscriptLength ==
    (pc = "wait" /\ messages # <<>>) =>
        /\ Len(messages) = 1 + 2 * nTurns
        /\ \A k \in 1..Len(messages) :
             messages[k].role = IF k % 2 = 1 THEN "assistant" ELSE "user"

\* C2: no exception escapes a turn, and what generate_db_answer returns, which
\* becomes the assistant reply in the transcript, is always a string.
C2_AlwaysAStringReply ==
    /\ ~escaped
    /\ \A k \in 1..Len(messages) : ~messages[k].content.none

\* C3: when the SQL-generation call raised, the reply is exactly
\* "Error generating SQL: " followed by the message, and the turn opened no
\* database connection, executed no SQL and made no synthesis call.
C3_SqlGenFailure ==
    (~sqlResp.ok) =>
        /\ pc = "append"
        /\ answer = Str(<<"Error generating SQL: ">> \o sqlResp.err)
        /\ turnConns = 0
        /\ openConns = 0
        /\ dbOut.kind = "idle"
        /\ turnCalls = <<"sql">>

C3_Witness == pc = "append" /\ ~sqlResp.ok /\ sqlResp.err = <<"503 UNAVAILABLE">>

\* C4: a failed schema fetch yields a text holding the marker, every turn
\* then replies that the database cannot be reached without calling the LLM
\* or the database, and a schema fetched without error never gets this reply.
C4_UnreachableReplyIffFetchFailed ==
    /\ (schemaFailed /\ ~DB_SCHEMA.none) => Contains(<<"Schema unavailable">>, DB_SCHEMA.s)
    /\ (pc = "append") =>
         /\ IsUnreachableReply(answer) <=> schemaFailed
         /\ schemaFailed => (turnCalls = <<>> /\ turnConns = 0 /\ dbOut.kind = "idle")

\* C5: when the generated SQL failed with a database error, the text
\* "Database Error: " followed by the message is in the synthesis prompt and
\* the reply of the turn is a non-empty string.
C5_DbErrorReachesPromptAndReplyNonEmpty ==
    (pc = "append" /\ dbOut.kind = "error") =>
        /\ Contains(<<"Database Error: ">> \o dbOut.msg, final_answer_prompt)
        /\ ~answer.none
        /\ answer.s # <<>>

\* C6: at most one connection is open, the local conn holds it, and none is
\* open outside the schema fetch and the query execution: not while an LLM
\* call is in flight, not between stages, not between script runs.
C6_ConnectionsClosed ==
    /\ openConns <= 1
    /\ (openConns = 1) <=> conn
    /\ (pc \notin {"schema_query", "schema_finally", "exec_run", "exec_finally"})
         => openConns = 0

C6_Witness ==
    /\ pc = "wait"
    /\ escaped
    /\ nTurns = 2
    /\ openConns = 0
    /\ Len(messages) = 4

\* C7: the body of get_db_schema runs at most once in a session and every
\* call returns the text the first call returned, error-flagged or not.
C7_SchemaFetchedOnce ==
    /\ schemaFetches <= 1
    /\ ~DB_SCHEMA.none => DB_SCHEMA = firstSchema
    /\ (pc \notin {"wait", "get_schema", "schema_query", "schema_finally"})
         => ~DB_SCHEMA.none

C7_Witness ==
    /\ pc = "append"
    /\ nTurns = 2
    /\ schemaFailed
    /\ schemaFetches = 1
    /\ DB_SCHEMA = firstSchema

C9_EveryReturnedValueInPrompt ==
    (pc = "synth_call" /\ dbOut.kind = "rows") =>
        LET cols == dbOut.cols
            data == dbOut.data
            pairs(i) == [j \in 1..Len(cols) |->
                           <<"'", cols[j], "'", ": ">> \o IntStr(data[i][j])]
            rows == [i \in 1..Len(data) |->
                           <<"{">> \o Join(pairs(i), <<", ">>) \o <<"}">>]
        IN  Contains(<<"[">> \o Join(rows, <<", ">>) \o <<"]">>, final_answer_prompt)

\* C10: the result text handed to the synthesis call is the text of the row
\* list ("[]" when there are no rows) or starts with "Database Error: "; it
\* is never the initial "No data found.".
C10_ResultTextForms ==
    (pc = "synth_call") =>
        /\ query_result # <<"No data found.">>
        /\ Contains(<<"\" The database result is:\n">> \o query_result, final_answer_prompt)
        /\ \/ /\ dbOut.kind = "error"
              /\ query_result = <<"Database Error: ">> \o dbOut.msg
           \/ /\ dbOut.kind = "rows"
              /\ query_result[1] = "["
              /\ query_result[Len(query_result)] = "]"
              /\ (dbOut.data = <<>>) <=> (query_result = <<"[", "]">>)

C10_Witness ==
    /\ pc = "synth_call"
    /\ dbOut.kind = "rows"
    /\ dbOut.data = <<>>
    /\ query_result = <<"[", "]">>

====
